---- MODULE Spec2Model ----
(***************************************************************************)
(* Model of the real-estate record backend (lib.rs): one shared ID counter *)
(* (ID_COUNTER), three ordered tables (PROPERTIES_STORAGE, LEASES_STORAGE, *)
(* MAINTENANCE_STORAGE) and the twelve canister entry points.  Every entry *)
(* point runs to completion (single-threaded canister), so each is one     *)
(* action.  Strings are modelled by string literals, f64 amounts by small  *)
(* integers, u64 values by naturals far below 2^64 (the counter is capped  *)
(* by MaxCreates, so current_value + 1 never wraps).                       *)
(***************************************************************************)
EXTENDS Integers, Sequences, FiniteSets, TLC

VARIABLES id_counter, properties, leases, maintenance, now, call, result, issued, deleted

vars == <<id_counter, properties, leases, maintenance, now, call, result, issued, deleted>>

\* ---------------------------------------------------------------- bounds
\* successful creates explored (caps ID_COUNTER)
MaxCreates == 2
\* largest value the host clock reaches
MaxTime == 1
\* largest id a caller passes to update/delete
MaxId == 1

Ids == 0 .. MaxId

\* ---------------------------------------------------------------- inputs
\* one payload that passes create_property's check, one per failing field
PropertyPayloads ==
  { [address |-> "123 Main St", owner |-> "Alice", valuation |-> 500000, status |-> "available"],
    [address |-> "",            owner |-> "Bob",   valuation |-> 600000, status |-> "sold"],
    [address |-> "9 Elm Rd",    owner |-> "",      valuation |-> 600000, status |-> "sold"] }

\* a valid lease, one with an empty tenant, one with start_date = end_date;
\* property 0 or 1 exists or not depending on what was created and deleted
LeaseAgreementPayloads ==
  { [property_id |-> 0, tenant |-> "Tom", rent |-> 1000, start_date |-> 1, end_date |-> 2,
     digital_signature |-> "sigA"],
    [property_id |-> 1, tenant |-> "",    rent |-> 1000, start_date |-> 1, end_date |-> 2,
     digital_signature |-> "sigA"],
    [property_id |-> 0, tenant |-> "Ann", rent |-> 1200, start_date |-> 2, end_date |-> 2,
     digital_signature |-> "sigB"] }

\* the two accepted statuses and one that is not
MaintenanceRequestPayloads ==
  { [property_id |-> 0, description |-> "leak", status |-> "pending",   priority |-> "high"],
    [property_id |-> 1, description |-> "roof", status |-> "completed", priority |-> "low"],
    [property_id |-> 0, description |-> "roof", status |-> "open",      priority |-> "low"] }

\* ---------------------------------------------------------------- tables
EmptyTable == << >>

contains_key(t, k) == k \in DOMAIN t

insert(t, k, v) == [x \in (DOMAIN t) \cup {k} |-> IF x = k THEN v ELSE t[x]]

\* a remove that reports the entry but leaves it stored
remove_keep(t, k) == t

remove(t, k) == [x \in (DOMAIN t) \ {k} |-> t[x]]

\* iteration from the largest key downwards
MaxKey(S) == CHOOSE k \in S : \A j \in S : k >= j

MinKey(S) == CHOOSE k \in S : \A j \in S : k <= j

RECURSIVE iter(_)
iter(t) ==
  IF DOMAIN t = {} THEN << >>
  ELSE LET k == MinKey(DOMAIN t) IN <<t[k]>> \o iter(remove(t, k))

\* ---------------------------------------------------------------- results
Ok(v) == [status |-> "Ok", value |-> v]
Err(e) == [status |-> e, value |-> "none"]

NoId == -1
NoPayload == "none"
Call(op, id, payload) == [op |-> op, id |-> id, payload |-> payload]

\* ---------------------------------------------------------------- records
\* constructor with address and owner exchanged
Property_new_swapped(id, address, owner, valuation, status) ==
  [id |-> id, address |-> owner, owner |-> address, valuation |-> valuation,
   status |-> status, created_at |-> now]

Property_new(id, address, owner, valuation, status) ==
  [id |-> id, address |-> address, owner |-> owner, valuation |-> valuation,
   status |-> status, created_at |-> now]

LeaseAgreement_new(id, property_id, tenant, rent, start_date, end_date, digital_signature) ==
  [id |-> id, property_id |-> property_id, tenant |-> tenant, rent |-> rent,
   start_date |-> start_date, end_date |-> end_date, created_at |-> now,
   digital_signature |-> digital_signature]

MaintenanceRequest_new(id, property_id, description, status, priority) ==
  [id |-> id, property_id |-> property_id, description |-> description,
   status |-> status, created_at |-> now, priority |-> priority]

\* ---------------------------------------------------------------- initial state
Init ==
  /\ id_counter = 0
  /\ properties = EmptyTable
  /\ leases = EmptyTable
  /\ maintenance = EmptyTable
  /\ now = 0
  /\ call = Call("init", NoId, NoPayload)
  /\ result = Err("none")
  /\ issued = << >>
  /\ deleted = {}

\* the host clock: ic_cdk::api::time() never decreases between messages
Tick ==
  /\ now < MaxTime
  /\ now' = now + 1
  /\ call' = Call("tick", NoId, NoPayload)
  /\ result' = Err("none")
  /\ UNCHANGED <<id_counter, properties, leases, maintenance, issued, deleted>>


\* ---------------------------------------------------------------- ID counter
\* a counter that is read but never advanced
next_counter_stuck(current_value) == current_value

\* a counter advanced twice per allocation
next_counter_twice(current_value) == current_value + 2

\* ID_COUNTER.with(..): read current_value, store current_value + 1, yield current_value
next_counter(current_value) == current_value + 1

\* ---------------------------------------------------------------- validation
\* the early returns of the create handlers, in source order
\* a missing owner reported as a caller-identity failure
check_property_unauthorized(payload) ==
  IF payload.address = "" THEN "ValidationError"
  ELSE IF payload.owner = "" THEN "Unauthorized"
  ELSE "Ok"

check_property(payload) ==
  IF payload.address = "" \/ payload.owner = "" THEN "ValidationError" ELSE "Ok"

\* the date comparison moved in front of the property lookup
check_lease_agreement_dates_first(payload) ==
  IF payload.tenant = "" THEN "ValidationError"
  ELSE IF payload.start_date >= payload.end_date THEN "ValidationError"
  ELSE IF ~contains_key(properties, payload.property_id) THEN "NotFound"
  ELSE "Ok"

\* the date comparison with > in place of >=
check_lease_agreement_equal_dates(payload) ==
  IF payload.tenant = "" THEN "ValidationError"
  ELSE IF ~contains_key(properties, payload.property_id) THEN "NotFound"
  ELSE IF payload.start_date > payload.end_date THEN "ValidationError"
  ELSE "Ok"

check_lease_agreement(payload) ==
  IF payload.tenant = "" THEN "ValidationError"
  ELSE IF ~contains_key(properties, payload.property_id) THEN "NotFound"
  ELSE IF payload.start_date >= payload.end_date THEN "ValidationError"
  ELSE "Ok"

\* the property lookup moved in front of the status check
check_maintenance_request_lookup_first(payload) ==
  IF ~contains_key(properties, payload.property_id) THEN "NotFound"
  ELSE IF payload.status # "pending" /\ payload.status # "completed" THEN "ValidationError"
  ELSE "Ok"

check_maintenance_request(payload) ==
  IF payload.status # "pending" /\ payload.status # "completed" THEN "ValidationError"
  ELSE IF ~contains_key(properties, payload.property_id) THEN "NotFound"
  ELSE "Ok"

\* ---------------------------------------------------------------- field assignment of the updates
\* an update that stamps the record with the current time
assign_property_restamped(property, payload) ==
  [property EXCEPT !.address = payload.address, !.owner = payload.owner,
                   !.valuation = payload.valuation, !.status = payload.status,
                   !.created_at = now]

assign_property(property, payload) ==
  [property EXCEPT !.address = payload.address, !.owner = payload.owner,
                   !.valuation = payload.valuation, !.status = payload.status]

\* an update that forgets the signature
assign_lease_agreement_no_signature(lease, payload) ==
  [lease EXCEPT !.property_id = payload.property_id, !.tenant = payload.tenant,
                !.rent = payload.rent, !.start_date = payload.start_date,
                !.end_date = payload.end_date]

assign_lease_agreement(lease, payload) ==
  [lease EXCEPT !.property_id = payload.property_id, !.tenant = payload.tenant,
                !.rent = payload.rent, !.start_date = payload.start_date,
                !.end_date = payload.end_date, !.digital_signature = payload.digital_signature]

\* an update that takes the record's id from the payload's property_id
assign_maintenance_request_with_id(request, payload) ==
  [request EXCEPT !.id = payload.property_id,
                  !.property_id = payload.property_id, !.description = payload.description,
                  !.status = payload.status, !.priority = payload.priority]

assign_maintenance_request(request, payload) ==
  [request EXCEPT !.property_id = payload.property_id, !.description = payload.description,
                  !.status = payload.status, !.priority = payload.priority]

\* ---------------------------------------------------------------- Property operations
create_property(payload) ==
  /\ call' = Call("create_property", NoId, payload)
  /\ IF check_property(payload) # "Ok"
     THEN /\ result' = Err(check_property(payload))
          /\ UNCHANGED <<id_counter, properties, issued>>
     ELSE LET id == id_counter
              property == Property_new(id, payload.address, payload.owner,
                                       payload.valuation, payload.status)
          IN /\ id_counter < MaxCreates
             /\ id_counter' = next_counter(id_counter)
             /\ properties' = insert(properties, property.id, property)
             /\ result' = Ok(property)
             /\ issued' = Append(issued, id)
  /\ UNCHANGED <<leases, maintenance, now, deleted>>

update_property(id, payload) ==
  /\ call' = Call("update_property", id, payload)
  /\ IF contains_key(properties, id)
     THEN LET property == assign_property(properties[id], payload)
          IN /\ properties' = insert(properties, id, property)
             /\ result' = Ok(property)
     ELSE /\ result' = Err("NotFound")
          /\ UNCHANGED properties
  /\ UNCHANGED <<id_counter, leases, maintenance, now, issued, deleted>>

\* a delete that also removes the leases of the property
delete_property_cascade(id) ==
  /\ call' = Call("delete_property", id, NoPayload)
  /\ IF contains_key(properties, id)
     THEN /\ properties' = remove(properties, id)
          /\ leases' = [k \in {x \in DOMAIN leases : leases[x].property_id # id} |-> leases[k]]
          /\ result' = Ok("unit")
          /\ deleted' = deleted \cup {<<"property", id>>}
     ELSE /\ result' = Err("NotFound")
          /\ UNCHANGED <<properties, leases, deleted>>
  /\ UNCHANGED <<id_counter, maintenance, now, issued>>

delete_property(id) ==
  /\ call' = Call("delete_property", id, NoPayload)
  /\ IF contains_key(properties, id)
     THEN /\ properties' = remove(properties, id)
          /\ result' = Ok("unit")
          /\ deleted' = deleted \cup {<<"property", id>>}
     ELSE /\ result' = Err("NotFound")
          /\ UNCHANGED <<properties, deleted>>
  /\ UNCHANGED <<id_counter, leases, maintenance, now, issued>>

get_all(table) ==
  IF iter(table) = << >> THEN Err("NotFound") ELSE Ok(iter(table))

get_all_properties ==
  /\ call' = Call("get_all_properties", NoId, NoPayload)
  /\ result' = get_all(properties)
  /\ UNCHANGED <<id_counter, properties, leases, maintenance, now, issued, deleted>>

\* ---------------------------------------------------------------- LeaseAgreement operations
\* the id allocated before the checks instead of after them
create_lease_agreement_alloc_first(payload) ==
  /\ call' = Call("create_lease_agreement", NoId, payload)
  /\ id_counter < MaxCreates
  /\ id_counter' = next_counter(id_counter)
  /\ IF check_lease_agreement(payload) # "Ok"
     THEN /\ result' = Err(check_lease_agreement(payload))
          /\ UNCHANGED <<leases, issued>>
     ELSE LET id == id_counter
              lease == LeaseAgreement_new(id, payload.property_id, payload.tenant, payload.rent,
                                          payload.start_date, payload.end_date,
                                          payload.digital_signature)
          IN /\ leases' = insert(leases, lease.id, lease)
             /\ result' = Ok(lease)
             /\ issued' = Append(issued, id)
  /\ UNCHANGED <<properties, maintenance, now, deleted>>

create_lease_agreement(payload) ==
  /\ call' = Call("create_lease_agreement", NoId, payload)
  /\ IF check_lease_agreement(payload) # "Ok"
     THEN /\ result' = Err(check_lease_agreement(payload))
          /\ UNCHANGED <<id_counter, leases, issued>>
     ELSE LET id == id_counter
              lease == LeaseAgreement_new(id, payload.property_id, payload.tenant, payload.rent,
                                          payload.start_date, payload.end_date,
                                          payload.digital_signature)
          IN /\ id_counter < MaxCreates
             /\ id_counter' = next_counter(id_counter)
             /\ leases' = insert(leases, lease.id, lease)
             /\ result' = Ok(lease)
             /\ issued' = Append(issued, id)
  /\ UNCHANGED <<properties, maintenance, now, deleted>>

\* an update that repeats the checks of create_lease_agreement
update_lease_agreement_checked(id, payload) ==
  /\ call' = Call("update_lease_agreement", id, payload)
  /\ IF ~contains_key(leases, id)
     THEN /\ result' = Err("NotFound")
          /\ UNCHANGED leases
     ELSE IF check_lease_agreement(payload) # "Ok"
     THEN /\ result' = Err(check_lease_agreement(payload))
          /\ UNCHANGED leases
     ELSE LET lease == assign_lease_agreement(leases[id], payload)
          IN /\ leases' = insert(leases, id, lease)
             /\ result' = Ok(lease)
  /\ UNCHANGED <<id_counter, properties, maintenance, now, issued, deleted>>

update_lease_agreement(id, payload) ==
  /\ call' = Call("update_lease_agreement", id, payload)
  /\ IF contains_key(leases, id)
     THEN LET lease == assign_lease_agreement(leases[id], payload)
          IN /\ leases' = insert(leases, id, lease)
             /\ result' = Ok(lease)
     ELSE /\ result' = Err("NotFound")
          /\ UNCHANGED leases
  /\ UNCHANGED <<id_counter, properties, maintenance, now, issued, deleted>>

delete_lease_agreement(id) ==
  /\ call' = Call("delete_lease_agreement", id, NoPayload)
  /\ IF contains_key(leases, id)
     THEN /\ leases' = remove(leases, id)
          /\ result' = Ok("unit")
          /\ deleted' = deleted \cup {<<"lease", id>>}
     ELSE /\ result' = Err("NotFound")
          /\ UNCHANGED <<leases, deleted>>
  /\ UNCHANGED <<id_counter, properties, maintenance, now, issued>>

get_all_lease_agreements ==
  /\ call' = Call("get_all_lease_agreements", NoId, NoPayload)
  /\ result' = get_all(leases)
  /\ UNCHANGED <<id_counter, properties, leases, maintenance, now, issued, deleted>>

\* ---------------------------------------------------------------- MaintenanceRequest operations
create_maintenance_request(payload) ==
  /\ call' = Call("create_maintenance_request", NoId, payload)
  /\ IF check_maintenance_request(payload) # "Ok"
     THEN /\ result' = Err(check_maintenance_request(payload))
          /\ UNCHANGED <<id_counter, maintenance, issued>>
     ELSE LET id == id_counter
              request == MaintenanceRequest_new(id, payload.property_id, payload.description,
                                                payload.status, payload.priority)
          IN /\ id_counter < MaxCreates
             /\ id_counter' = next_counter(id_counter)
             /\ maintenance' = insert(maintenance, request.id, request)
             /\ result' = Ok(request)
             /\ issued' = Append(issued, id)
  /\ UNCHANGED <<properties, leases, now, deleted>>

update_maintenance_request(id, payload) ==
  /\ call' = Call("update_maintenance_request", id, payload)
  /\ IF contains_key(maintenance, id)
     THEN LET request == assign_maintenance_request(maintenance[id], payload)
          IN /\ maintenance' = insert(maintenance, id, request)
             /\ result' = Ok(request)
     ELSE /\ result' = Err("NotFound")
          /\ UNCHANGED maintenance
  /\ UNCHANGED <<id_counter, properties, leases, now, issued, deleted>>

delete_maintenance_request(id) ==
  /\ call' = Call("delete_maintenance_request", id, NoPayload)
  /\ IF contains_key(maintenance, id)
     THEN /\ maintenance' = remove(maintenance, id)
          /\ result' = Ok("unit")
          /\ deleted' = deleted \cup {<<"maintenance", id>>}
     ELSE /\ result' = Err("NotFound")
          /\ UNCHANGED <<maintenance, deleted>>
  /\ UNCHANGED <<id_counter, properties, leases, now, issued>>

get_all_maintenance_requests ==
  /\ call' = Call("get_all_maintenance_requests", NoId, NoPayload)
  /\ result' = get_all(maintenance)
  /\ UNCHANGED <<id_counter, properties, leases, maintenance, now, issued, deleted>>

\* ---------------------------------------------------------------- specification
Next ==
  \/ Tick
  \/ \E payload \in PropertyPayloads : create_property(payload)
  \/ \E id \in Ids, payload \in PropertyPayloads : update_property(id, payload)
  \/ \E id \in Ids : delete_property(id)
  \/ get_all_properties
  \/ \E payload \in LeaseAgreementPayloads : create_lease_agreement(payload)
  \/ \E id \in Ids, payload \in LeaseAgreementPayloads : update_lease_agreement(id, payload)
  \/ \E id \in Ids : delete_lease_agreement(id)
  \/ get_all_lease_agreements
  \/ \E payload \in MaintenanceRequestPayloads : create_maintenance_request(payload)
  \/ \E id \in Ids, payload \in MaintenanceRequestPayloads : update_maintenance_request(id, payload)
  \/ \E id \in Ids : delete_maintenance_request(id)
  \/ get_all_maintenance_requests

Spec == Init /\ [][Next]_vars


\* ================================================================ properties
CreateOps == {"create_property", "create_lease_agreement", "create_maintenance_request"}
Errors == {"NotFound", "ValidationError", "Unauthorized"}

\* ids of the records of a get_all result
IdsOf(records) == {records[i].id : i \in 1 .. Len(records)}

\* ---------------------------------------------------------------- C1
\* C1 as stated: create_lease_agreement and create_maintenance_request with a
\* property_id that is not a key of the Property table fail with NotFound,
\* whatever the other payload fields are.
C1_MissingPropertyAlwaysNotFound ==
  (call.op \in {"create_lease_agreement", "create_maintenance_request"}
     /\ ~contains_key(properties, call.payload.property_id))
  => result.status = "NotFound"

\* C1 amended: with a property_id that is not a key of the Property table,
\* create_lease_agreement fails with NotFound when the tenant is non-empty
\* (also when start_date >= end_date), and create_maintenance_request fails
\* with NotFound when the status is "pending" or "completed"; with an empty
\* tenant, or another status, they fail with ValidationError instead.
C1_MissingPropertyNotFoundAfterFirstCheck ==
  /\ (call.op = "create_lease_agreement" /\ ~contains_key(properties, call.payload.property_id))
       => result.status = (IF call.payload.tenant = "" THEN "ValidationError" ELSE "NotFound")
  /\ (call.op = "create_maintenance_request" /\ ~contains_key(properties, call.payload.property_id))
       => result.status = (IF call.payload.status \in {"pending", "completed"}
                           THEN "NotFound" ELSE "ValidationError")

\* a lease with a tenant but start_date >= end_date was refused for its missing property
C1_Witness ==
  /\ call.op = "create_lease_agreement"
  /\ call.payload.tenant # ""
  /\ call.payload.start_date >= call.payload.end_date
  /\ ~contains_key(properties, call.payload.property_id)
  /\ properties # EmptyTable
  /\ result.status = "NotFound"

\* ---------------------------------------------------------------- C2
\* C2: every LeaseAgreement stored in the lease table satisfies
\* start_date < end_date, after any sequence of create/update/delete.
C2_StoredLeaseDatesOrdered ==
  \A id \in DOMAIN leases : leases[id].start_date < leases[id].end_date

\* ---------------------------------------------------------------- C3
\* C3: every MaintenanceRequest stored in the maintenance table has status
\* "pending" or "completed", after any sequence of create/update/delete.
C3_StoredStatusValid ==
  \A id \in DOMAIN maintenance : maintenance[id].status \in {"pending", "completed"}


\* ---------------------------------------------------------------- C4
\* C4: every successful create returns an id strictly greater than every id
\* returned by an earlier successful create of any entity type, also after
\* deletes; so no id is issued twice and no id is a key of two tables.
C4_IdsStrictlyIncreasing ==
  /\ \A i, j \in 1 .. Len(issued) : i < j => issued[i] < issued[j]
  /\ (call.op \in CreateOps /\ result.status = "Ok")
       => /\ result.value.id = issued[Len(issued)]
          /\ \A i \in 1 .. (Len(issued) - 1) : issued[i] < result.value.id
  /\ (DOMAIN properties) \cap (DOMAIN leases) = {}
  /\ (DOMAIN properties) \cap (DOMAIN maintenance) = {}
  /\ (DOMAIN leases) \cap (DOMAIN maintenance) = {}

\* a create that succeeded after an earlier record had been deleted
C4_Witness ==
  /\ call.op \in CreateOps
  /\ result.status = "Ok"
  /\ Len(issued) >= 2
  /\ deleted # {}

\* ---------------------------------------------------------------- C5
\* C5: an operation that returns an error leaves the ID counter and the
\* three tables exactly as they were; a rejected create consumes no id.
C5_ErrorsChangeNothing ==
  [][ result'.status \in Errors
        => UNCHANGED <<id_counter, properties, leases, maintenance>> ]_vars

\* a lease refused for its dates, after the tenant and property checks had passed
C5_Witness ==
  /\ call.op = "create_lease_agreement"
  /\ result.status = "ValidationError"
  /\ call.payload.tenant # ""
  /\ contains_key(properties, call.payload.property_id)
  /\ id_counter = 1

\* ---------------------------------------------------------------- C6
\* C6: a successful create returns a record whose caller-supplied fields are
\* the payload's, and get_all of that entity type then succeeds and holds
\* exactly that record under the returned id.
Listed(table, record) ==
  /\ get_all(table).status = "Ok"
  /\ Cardinality({i \in 1 .. Len(get_all(table).value) :
                    get_all(table).value[i].id = record.id}) = 1
  /\ \A i \in 1 .. Len(get_all(table).value) :
       get_all(table).value[i].id = record.id => get_all(table).value[i] = record

C6_CreateReturnsAndLists ==
  /\ (call.op = "create_property" /\ result.status = "Ok")
       => /\ result.value.address = call.payload.address
          /\ result.value.owner = call.payload.owner
          /\ result.value.valuation = call.payload.valuation
          /\ result.value.status = call.payload.status
          /\ Listed(properties, result.value)
  /\ (call.op = "create_lease_agreement" /\ result.status = "Ok")
       => /\ result.value.property_id = call.payload.property_id
          /\ result.value.tenant = call.payload.tenant
          /\ result.value.rent = call.payload.rent
          /\ result.value.start_date = call.payload.start_date
          /\ result.value.end_date = call.payload.end_date
          /\ result.value.digital_signature = call.payload.digital_signature
          /\ Listed(leases, result.value)
  /\ (call.op = "create_maintenance_request" /\ result.status = "Ok")
       => /\ result.value.property_id = call.payload.property_id
          /\ result.value.description = call.payload.description
          /\ result.value.status = call.payload.status
          /\ result.value.priority = call.payload.priority
          /\ Listed(maintenance, result.value)

\* a second property was created and is listed next to the first
C6_Witness ==
  /\ call.op = "create_property"
  /\ result.status = "Ok"
  /\ result.value.id = 1
  /\ Cardinality(DOMAIN properties) = 2


\* ---------------------------------------------------------------- C7
\* C7: a successful update(id, payload) keeps the record's id and created_at,
\* sets every other field to the payload's value, returns the record now
\* stored under id, and leaves every other record of the table unchanged.
OthersKept(old, new, id) ==
  /\ DOMAIN new = DOMAIN old
  /\ \A k \in (DOMAIN old) \ {id} : new[k] = old[k]

C7_UpdateFrame ==
  [][ /\ (call'.op = "update_property" /\ result'.status = "Ok")
           => /\ contains_key(properties, call'.id)
              /\ properties'[call'.id].id = properties[call'.id].id
              /\ properties'[call'.id].created_at = properties[call'.id].created_at
              /\ properties'[call'.id].address = call'.payload.address
              /\ properties'[call'.id].owner = call'.payload.owner
              /\ properties'[call'.id].valuation = call'.payload.valuation
              /\ properties'[call'.id].status = call'.payload.status
              /\ result'.value = properties'[call'.id]
              /\ OthersKept(properties, properties', call'.id)
      /\ (call'.op = "update_lease_agreement" /\ result'.status = "Ok")
           => /\ contains_key(leases, call'.id)
              /\ leases'[call'.id].id = leases[call'.id].id
              /\ leases'[call'.id].created_at = leases[call'.id].created_at
              /\ leases'[call'.id].property_id = call'.payload.property_id
              /\ leases'[call'.id].tenant = call'.payload.tenant
              /\ leases'[call'.id].rent = call'.payload.rent
              /\ leases'[call'.id].start_date = call'.payload.start_date
              /\ leases'[call'.id].end_date = call'.payload.end_date
              /\ leases'[call'.id].digital_signature = call'.payload.digital_signature
              /\ result'.value = leases'[call'.id]
              /\ OthersKept(leases, leases', call'.id)
      /\ (call'.op = "update_maintenance_request" /\ result'.status = "Ok")
           => /\ contains_key(maintenance, call'.id)
              /\ maintenance'[call'.id].id = maintenance[call'.id].id
              /\ maintenance'[call'.id].created_at = maintenance[call'.id].created_at
              /\ maintenance'[call'.id].property_id = call'.payload.property_id
              /\ maintenance'[call'.id].description = call'.payload.description
              /\ maintenance'[call'.id].status = call'.payload.status
              /\ maintenance'[call'.id].priority = call'.payload.priority
              /\ result'.value = maintenance'[call'.id]
              /\ OthersKept(maintenance, maintenance', call'.id)
    ]_vars

\* a lease created at time 0 was given a new signature at time 1
C7_Witness ==
  /\ call.op = "update_lease_agreement"
  /\ result.status = "Ok"
  /\ result.value.digital_signature = "sigB"
  /\ result.value.created_at < now

\* ---------------------------------------------------------------- C8
\* C8: delete(id) succeeds exactly when id is a key of the table; afterwards
\* id is absent from the table and from get_all, the other records are
\* unchanged, and a later delete(id) or update(id, ..) fails with NotFound.
DeleteStep(op, old, new) ==
  /\ (call'.op = op)
       => /\ (result'.status = "Ok") <=> contains_key(old, call'.id)
          /\ (result'.status # "Ok") => result'.status = "NotFound"
          /\ (result'.status = "Ok")
               => /\ ~contains_key(new, call'.id)
                  /\ (get_all(new).status = "Ok" => call'.id \notin IdsOf(get_all(new).value))
                  /\ DOMAIN new = (DOMAIN old) \ {call'.id}
                  /\ \A k \in DOMAIN new : new[k] = old[k]

AfterDelete(ops, kind) ==
  (call'.op \in ops /\ <<kind, call'.id>> \in deleted) => result'.status = "NotFound"

C8_DeleteRemoves ==
  [][ /\ DeleteStep("delete_property", properties, properties')
      /\ DeleteStep("delete_lease_agreement", leases, leases')
      /\ DeleteStep("delete_maintenance_request", maintenance, maintenance')
      /\ AfterDelete({"delete_property", "update_property"}, "property")
      /\ AfterDelete({"delete_lease_agreement", "update_lease_agreement"}, "lease")
      /\ AfterDelete({"delete_maintenance_request", "update_maintenance_request"}, "maintenance")
    ]_vars

\* a property was deleted twice while another property stayed stored
C8_Witness ==
  /\ call.op = "delete_property"
  /\ result.status = "NotFound"
  /\ <<"property", call.id>> \in deleted
  /\ properties # EmptyTable

\* ---------------------------------------------------------------- C9
\* C9: get_all fails with NotFound exactly when the table is empty; otherwise
\* it returns every record of the table, once each, in strictly ascending id
\* order.
ListsAll(table) ==
  /\ (result.status = "NotFound") <=> (DOMAIN table = {})
  /\ (result.status # "NotFound")
       => /\ result.status = "Ok"
          /\ Len(result.value) = Cardinality(DOMAIN table)
          /\ \A i \in 1 .. Len(result.value) :
               /\ contains_key(table, result.value[i].id)
               /\ result.value[i] = table[result.value[i].id]
          /\ \A i, j \in 1 .. Len(result.value) :
               i < j => result.value[i].id < result.value[j].id

C9_GetAll ==
  /\ call.op = "get_all_properties" => ListsAll(properties)
  /\ call.op = "get_all_lease_agreements" => ListsAll(leases)
  /\ call.op = "get_all_maintenance_requests" => ListsAll(maintenance)

\* two properties were listed
C9_Witness ==
  /\ call.op = "get_all_properties"
  /\ result.status = "Ok"
  /\ Len(result.value) = 2

\* ---------------------------------------------------------------- C10
\* C10: the ID counter equals the number of successful creates so far, the
\* k-th successful create (from 0) returned id k, and update, delete and
\* get_all never change the counter.
C10_CounterCountsCreates ==
  [][ /\ id_counter' = Len(issued')
      /\ \A k \in 1 .. Len(issued') : issued'[k] = k - 1
      /\ (call'.op \in CreateOps /\ result'.status = "Ok")
           => /\ Len(issued') = Len(issued) + 1
              /\ result'.value.id = Len(issued)
      /\ ~(call'.op \in CreateOps /\ result'.status = "Ok")
           => /\ id_counter' = id_counter
              /\ issued' = issued
    ]_vars

\* the second successful create, of a maintenance request, returned id 1
C10_Witness ==
  /\ call.op = "create_maintenance_request"
  /\ result.status = "Ok"
  /\ result.value.id = 1
  /\ id_counter = 2


\* ---------------------------------------------------------------- C11
\* C11: update(id, payload) succeeds for every payload whenever id is a key of
\* the table: an empty address, owner or tenant, start_date >= end_date, a
\* status other than pending/completed or an unknown property_id do not make
\* it fail.  (An update never changes the key set, so "id is a key" is read
\* in the state after the call.)
C11_UpdateNeverValidates ==
  /\ (call.op = "update_property" /\ contains_key(properties, call.id))
       => result.status = "Ok"
  /\ (call.op = "update_lease_agreement" /\ contains_key(leases, call.id))
       => result.status = "Ok"
  /\ (call.op = "update_maintenance_request" /\ contains_key(maintenance, call.id))
       => result.status = "Ok"

\* a lease was updated to an empty tenant and a property_id that is no property
C11_Witness ==
  /\ call.op = "update_lease_agreement"
  /\ result.status = "Ok"
  /\ call.payload.tenant = ""
  /\ ~contains_key(properties, call.payload.property_id)
  /\ leases[call.id].tenant = ""

\* ---------------------------------------------------------------- C12
\* C12: delete_property leaves the lease table and the maintenance table
\* unchanged; leases and requests that named the deleted property stay
\* stored with their property_id.
C12_NoCascade ==
  [][ call'.op = "delete_property"
        => /\ leases' = leases
           /\ maintenance' = maintenance ]_vars

\* a property was deleted and a lease still names it
C12_Witness ==
  /\ call.op = "delete_property"
  /\ result.status = "Ok"
  /\ \E k \in DOMAIN leases : leases[k].property_id = call.id
  /\ ~contains_key(properties, call.id)


\* ---------------------------------------------------------------- C13
\* C13: create_lease_agreement with start_date >= end_date, a non-empty
\* tenant and a property_id that exists in the Property table fails with
\* ValidationError and stores no lease.
C13_BadDatesRejected ==
  [][ ( /\ call'.op = "create_lease_agreement"
        /\ call'.payload.start_date >= call'.payload.end_date
        /\ call'.payload.tenant # ""
        /\ contains_key(properties, call'.payload.property_id) )
        => /\ result'.status = "ValidationError"
           /\ leases' = leases
           /\ id_counter' = id_counter ]_vars

\* such a lease was refused while the property existed
C13_Witness ==
  /\ call.op = "create_lease_agreement"
  /\ call.payload.start_date >= call.payload.end_date
  /\ call.payload.tenant # ""
  /\ contains_key(properties, call.payload.property_id)
  /\ result.status = "ValidationError"
  /\ leases = EmptyTable

\* ---------------------------------------------------------------- C14
\* C14: no operation returns Unauthorized: create_property fails only with
\* ValidationError; update, delete and get_all fail only with NotFound;
\* create_lease_agreement and create_maintenance_request fail only with
\* ValidationError or NotFound.
UpdateDeleteGetOps ==
  { "update_property", "delete_property", "get_all_properties",
    "update_lease_agreement", "delete_lease_agreement", "get_all_lease_agreements",
    "update_maintenance_request", "delete_maintenance_request", "get_all_maintenance_requests" }

C14_ErrorKinds ==
  /\ result.status # "Unauthorized"
  /\ call.op = "create_property" => result.status \in {"Ok", "ValidationError"}
  /\ call.op \in UpdateDeleteGetOps => result.status \in {"Ok", "NotFound"}
  /\ call.op \in {"create_lease_agreement", "create_maintenance_request"}
       => result.status \in {"Ok", "ValidationError", "NotFound"}

\* create_property refused a payload for its empty owner
C14_Witness ==
  /\ call.op = "create_property"
  /\ call.payload.address # ""
  /\ call.payload.owner = ""
  /\ result.status = "ValidationError"

\* ---------------------------------------------------------------- C15
\* C15: the first failing check decides the error.  create_lease_agreement
\* reports ValidationError for an empty tenant before it looks up
\* property_id, and NotFound for a missing property before it compares the
\* dates; create_maintenance_request reports ValidationError for an invalid
\* status before it looks up property_id.
C15_CheckOrder ==
  /\ (call.op = "create_lease_agreement" /\ call.payload.tenant = "")
       => result.status = "ValidationError"
  /\ ( /\ call.op = "create_lease_agreement"
       /\ call.payload.tenant # ""
       /\ ~contains_key(properties, call.payload.property_id) )
       => result.status = "NotFound"
  /\ ( /\ call.op = "create_maintenance_request"
       /\ call.payload.status \notin {"pending", "completed"} )
       => result.status = "ValidationError"

\* a request with an invalid status and a missing property got ValidationError
C15_Witness ==
  /\ call.op = "create_maintenance_request"
  /\ call.payload.status \notin {"pending", "completed"}
  /\ ~contains_key(properties, call.payload.property_id)
  /\ result.status = "ValidationError"


\* ---------------------------------------------------------------- C16
\* C16: in each of the three tables every key k maps to a record whose id is
\* k, and every key is strictly less than the current value of the ID counter.
KeysSound(table) ==
  \A k \in DOMAIN table : table[k].id = k /\ k < id_counter

C16_KeysMatchIds ==
  /\ KeysSound(properties)
  /\ KeysSound(leases)
  /\ KeysSound(maintenance)

\* a maintenance request stored under key 1 was updated with property_id 0
C16_Witness ==
  /\ call.op = "update_maintenance_request"
  /\ result.status = "Ok"
  /\ call.id # call.payload.property_id
  /\ contains_key(properties, 0)
  /\ maintenance[call.id].property_id = call.payload.property_id

\* ---------------------------------------------------------------- C17
\* C17: with a host clock that never decreases, any two stored records a and
\* b, of the same or of different tables, with a.id < b.id satisfy
\* a.created_at <= b.created_at, also after updates.
Stamps ==
  {<<properties[k].id, properties[k].created_at>> : k \in DOMAIN properties}
    \cup {<<leases[k].id, leases[k].created_at>> : k \in DOMAIN leases}
    \cup {<<maintenance[k].id, maintenance[k].created_at>> : k \in DOMAIN maintenance}

C17_CreatedAtFollowsIds ==
  \A a, b \in Stamps : a[1] < b[1] => a[2] <= b[2]

\* a property created at time 0 was updated after a lease was created at time 1
C17_Witness ==
  /\ call.op = "update_property"
  /\ result.status = "Ok"
  /\ now > result.value.created_at
  /\ \E k \in DOMAIN leases :
       /\ leases[k].id > result.value.id
       /\ leases[k].created_at > result.value.created_at

====
